---- MODULE Spec2Model ----
(***************************************************************************)
(* Model of santa.js: a Secret Santa draw.  The script parses its flags,   *)
(* validates the participant count, draws receivers by rejection sampling  *)
(* over Fisher-Yates shuffles (createAssignments) and then notifies every  *)
(* giver, one awaited transporter.sendMail call at a time (sendEmails).    *)
(***************************************************************************)
EXTENDS Integers, Sequences, FiniteSets, TLC

\* Largest participant list of config.js that is explored.
MaxN == 3

\* The log counter `attempts` is followed exactly up to this value; every
\* larger value is folded into it (the counter is only ever printed).
MaxAttempts == 2

\* Values of a participant's optional `group`; "" stands for a missing or
\* empty (falsy) group.
Groups == {"", "A", "B"}

\* Command-line arguments the run may be given.  "--group-check" is the
\* spelling the usage text advertises; the parser does not know it.
Flags == {"--dry-run", "-d", "--groups", "-g", "--help", "-h", "--group-check"}

VARIABLES
    args,                   \* process.argv.slice(2), as the set of its elements
    participants,           \* config.js participants: sequence of [uid, group]
    pc,                     \* position of the run
    exitCode,               \* "none" while running or ended normally, 0 after process.exit(0)
    usagePrinted,           \* the help text was printed
    errorLogged,            \* main's "at least 2 participants" error was printed
    attempts,               \* createAssignments: attempts
    hasInvalidAssignment,   \* createAssignments: hasInvalidAssignment
    rnd,                    \* the indices j drawn by the last shuffle, j = rnd[i]
    receivers,              \* createAssignments: receivers
    assignments,            \* the array createAssignments returned
    k,                      \* sendEmails: index of the assignment being handled
    dryRunLog,              \* givers for which "(DRY RUN) Would email" was printed
    sendMailCalls,          \* givers for which transporter.sendMail was called
    inflight,               \* sendMail promises not yet settled
    sent,                   \* number of "Email sent successfully" lines printed
    errors                  \* number of "Error sending email" lines printed

vars == <<args, participants, pc, exitCode, usagePrinted, errorLogged, attempts,
          hasInvalidAssignment, rnd, receivers, assignments, k, dryRunLog,
          sendMailCalls, inflight, sent, errors>>

matchVars == <<attempts, hasInvalidAssignment, rnd, receivers, assignments>>
sendVars  == <<k, dryRunLog, sendMailCalls, inflight, sent, errors>>
runVars   == <<exitCode, usagePrinted, errorLogged>>

----------------------------------------------------------------------------
\* Flag parsing (top of the script)

\* variant: the short spelling -d is not recognised
DRY_RUN_LongOnly == "--dry-run" \in args

DRY_RUN == ("--dry-run" \in args) \/ ("-d" \in args)

\* variant: the short spelling -g is not recognised
groups_on_LongOnly == "--groups" \in args

groups_on == ("--groups" \in args) \/ ("-g" \in args)

\* variant: the short spelling -h is not recognised
helpRequested_LongOnly == "--help" \in args

helpRequested == ("--help" \in args) \/ ("-h" \in args)

----------------------------------------------------------------------------
\* shuffle(array): Fisher-Yates, i from length-1 down to 1, j in 0..i
\* (here 1-based: i from Len down to 2, j = r[i] in 1..i).

RandomDraws(n) == {r \in [2..n -> 1..n] : \A i \in 2..n : r[i] <= i}

Swap(array, i, j) == [array EXCEPT ![i] = array[j], ![j] = array[i]]

RECURSIVE ShuffleFrom(_, _, _)
ShuffleFrom(array, i, r) ==
    IF i < 2 THEN array
    ELSE ShuffleFrom(Swap(array, i, r[i]), i - 1, r)

shuffle(array, r) == ShuffleFrom(array, Len(array), r)

----------------------------------------------------------------------------
\* createAssignments: the checks of one candidate

\* JavaScript truthiness of a group value
Truthy(g) == g # ""

SelfAssignment(giver, receiver) == giver.uid = receiver.uid

GroupConflict(giver, receiver) ==
    Truthy(giver.group) /\ Truthy(receiver.group) /\ giver.group = receiver.group

\* variant: the loop bound is givers.length - 1, the last pair is never checked
RECURSIVE CheckFrom_SkipLast(_, _, _)
CheckFrom_SkipLast(givers, recv, i) ==
    IF i >= Len(givers) THEN FALSE
    ELSE IF SelfAssignment(givers[i], recv[i]) THEN TRUE
    ELSE IF groups_on /\ GroupConflict(givers[i], recv[i]) THEN TRUE
    ELSE CheckFrom_SkipLast(givers, recv, i + 1)

\* variant: rule 1 breaks out of the loop without setting hasInvalidAssignment
RECURSIVE CheckFrom_SelfUnflagged(_, _, _)
CheckFrom_SelfUnflagged(givers, recv, i) ==
    IF i > Len(givers) THEN FALSE
    ELSE IF SelfAssignment(givers[i], recv[i]) THEN FALSE
    ELSE IF groups_on /\ GroupConflict(givers[i], recv[i]) THEN TRUE
    ELSE CheckFrom_SelfUnflagged(givers, recv, i + 1)

\* the for loop over i with its two `break`s: TRUE iff it sets hasInvalidAssignment
RECURSIVE CheckFrom(_, _, _)
CheckFrom(givers, recv, i) ==
    IF i > Len(givers) THEN FALSE
    ELSE IF SelfAssignment(givers[i], recv[i]) THEN TRUE
    ELSE IF groups_on /\ GroupConflict(givers[i], recv[i]) THEN TRUE
    ELSE CheckFrom(givers, recv, i + 1)

\* variant: the loop gives up after MaxAttempts attempts
WhileCondition_Ceiling(invalid, n) == invalid /\ n < MaxAttempts

\* the while condition, evaluated after an attempt
WhileCondition(invalid, n) == invalid

\* attempts++
IncAttempts(n) == IF n < MaxAttempts THEN n + 1 ELSE MaxAttempts

\* the array built after the loop
BuildAssignments(givers, recv) ==
    [i \in 1..Len(givers) |-> [giver |-> givers[i], receiver |-> recv[i]]]

----------------------------------------------------------------------------
ParticipantLists ==
    UNION {{[i \in 1..n |-> [uid |-> i, group |-> g[i]]] : g \in [1..n -> Groups]}
           : n \in 0..MaxN}

Init ==
    /\ args \in SUBSET Flags
    /\ participants \in ParticipantLists
    /\ pc = "start"
    /\ exitCode = "none"
    /\ usagePrinted = FALSE
    /\ errorLogged = FALSE
    /\ attempts = 0
    /\ hasInvalidAssignment = FALSE
    /\ rnd = <<>>
    /\ receivers = <<>>
    /\ assignments = <<>>
    /\ k = 0
    /\ dryRunLog = <<>>
    /\ sendMailCalls = <<>>
    /\ inflight = 0
    /\ sent = 0
    /\ errors = 0

\* --help / -h: print usage, process.exit(0)
HelpExit ==
    /\ pc = "start"
    /\ helpRequested
    /\ usagePrinted' = TRUE
    /\ exitCode' = 0
    /\ pc' = "exited"
    /\ UNCHANGED <<args, participants, errorLogged, matchVars, sendVars>>

\* variant: the validation only rejects an empty list
TooFewParticipants_Empty == Len(participants) < 1

TooFewParticipants == Len(participants) < 2

\* main: fewer than 2 participants
MainTooFew ==
    /\ pc = "start"
    /\ ~helpRequested
    /\ TooFewParticipants
    /\ errorLogged' = TRUE
    /\ pc' = "halted"
    /\ UNCHANGED <<args, participants, exitCode, usagePrinted, matchVars, sendVars>>

\* main calls createAssignments, which runs up to its while loop
MainStart ==
    /\ pc = "start"
    /\ ~helpRequested
    /\ ~TooFewParticipants
    /\ receivers' = participants
    /\ hasInvalidAssignment' = TRUE
    /\ attempts' = 0
    /\ pc' = "matching"
    /\ UNCHANGED <<args, participants, runVars, rnd, assignments, sendVars>>

\* variant: the previous candidate is shuffled again (no fresh copy)
Candidate_Reshuffled(r) == shuffle(receivers, r)

\* the receivers one attempt checks: a fresh copy of participants, shuffled
Candidate(r) == shuffle(participants, r)

\* one iteration of the while loop, drawing the indices r; when the loop
\* ends, the assignments are built and returned and sendEmails starts.
\* The locals attempts and receivers cease to exist on return (modelled by
\* their initial values); rnd keeps the last draw.
Attempt(r) ==
    /\ pc = "matching"
    /\ hasInvalidAssignment
    /\ DOMAIN r = 2..Len(participants)
    /\ LET recv    == Candidate(r)
           invalid == CheckFrom(participants, recv, 1)
           n       == IncAttempts(attempts)
       IN /\ attempts' = (IF WhileCondition(invalid, n) THEN n ELSE 0)
          /\ rnd' = r
          /\ hasInvalidAssignment' = invalid
          /\ IF WhileCondition(invalid, n)
                THEN /\ receivers' = recv
                     /\ pc' = "matching"
                     /\ UNCHANGED <<assignments, k>>
                ELSE /\ assignments' = BuildAssignments(participants, recv)
                     /\ receivers' = <<>>
                     /\ k' = 1
                     /\ pc' = "sending"
    /\ UNCHANGED <<args, participants, runVars, dryRunLog, sendMailCalls, inflight, sent, errors>>

AllDraws == UNION {RandomDraws(n) : n \in 2..MaxN}

CreateAssignmentsLoop == \E r \in AllDraws : Attempt(r)

\* sendEmails, DRY_RUN branch of one loop iteration
SendDry ==
    /\ pc = "sending"
    /\ k <= Len(assignments)
    /\ DRY_RUN
    /\ dryRunLog' = Append(dryRunLog, assignments[k].giver.uid)
    /\ k' = k + 1
    /\ UNCHANGED <<args, participants, pc, runVars, matchVars, sendMailCalls, inflight, sent, errors>>

\* variant: sendMail is called without await, the loop goes on at once
SendCall_NotAwaited ==
    /\ pc = "sending"
    /\ k <= Len(assignments)
    /\ ~DRY_RUN
    /\ sendMailCalls' = Append(sendMailCalls, assignments[k].giver.uid)
    /\ inflight' = inflight + 1
    /\ k' = k + 1
    /\ UNCHANGED <<args, participants, pc, runVars, matchVars, dryRunLog, sent, errors>>

\* sendEmails, live branch: transporter.sendMail is called and awaited
SendCall ==
    /\ pc = "sending"
    /\ k <= Len(assignments)
    /\ ~DRY_RUN
    /\ sendMailCalls' = Append(sendMailCalls, assignments[k].giver.uid)
    /\ inflight' = inflight + 1
    /\ pc' = "awaiting"
    /\ UNCHANGED <<args, participants, runVars, matchVars, k, dryRunLog, sent, errors>>

\* the awaited promise resolves
SendResolved ==
    /\ pc = "awaiting"
    /\ inflight' = inflight - 1
    /\ sent' = sent + 1
    /\ k' = k + 1
    /\ pc' = "sending"
    /\ UNCHANGED <<args, participants, runVars, matchVars, dryRunLog, sendMailCalls, errors>>

\* variant: no try/catch, the rejection ends sendEmails and main
SendRejected_Uncaught ==
    /\ pc = "awaiting"
    /\ inflight' = inflight - 1
    /\ errors' = errors + 1
    /\ pc' = "done"
    /\ UNCHANGED <<args, participants, runVars, matchVars, k, dryRunLog, sendMailCalls, sent>>

\* the awaited promise rejects; the catch block logs the error
SendRejected ==
    /\ pc = "awaiting"
    /\ inflight' = inflight - 1
    /\ errors' = errors + 1
    /\ k' = k + 1
    /\ pc' = "sending"
    /\ UNCHANGED <<args, participants, runVars, matchVars, dryRunLog, sendMailCalls, sent>>

\* the for-of loop is exhausted; main prints "All done!"
Finish ==
    /\ pc = "sending"
    /\ k > Len(assignments)
    /\ pc' = "done"
    /\ UNCHANGED <<args, participants, runVars, matchVars, sendVars>>

Next ==
    \/ HelpExit
    \/ MainTooFew
    \/ MainStart
    \/ CreateAssignmentsLoop
    \/ SendDry
    \/ SendCall
    \/ SendResolved
    \/ SendRejected
    \/ Finish

Spec == Init /\ [][Next]_vars

\* Math.random is fair: every sequence of shuffle indices keeps being drawn
\* while the loop runs.
FairDraws == \A r \in AllDraws : WF_vars(Attempt(r))

LiveSpec == Spec /\ FairDraws

----------------------------------------------------------------------------
\* Vocabulary of the properties, stated on the inputs and the observable
\* effects rather than on the script's own flags.

N == Len(participants)

DryRunMode == args \cap {"--dry-run", "-d"} # {}

GroupExclusionEnabled == args \cap {"--groups", "-g"} # {}

HelpAsked == args \cap {"--help", "-h"} # {}

DistinctIds ==
    \A i, j \in 1..N : i # j => participants[i].uid # participants[j].uid

Returned == pc \in {"sending", "awaiting", "done"}

Perms(n) == {f \in [1..n -> 1..n] : \A i, j \in 1..n : i # j => f[i] # f[j]}

SameGroup(p, q) == p.group # "" /\ q.group # "" /\ p.group = q.group

\* giver/receiver pairs that break rule 1, or rule 2 when it is enabled
Violation(p, q) == p.uid = q.uid \/ (GroupExclusionEnabled /\ SameGroup(p, q))

HasViolation(recv) == \E i \in 1..N : Violation(participants[i], recv[i])

\* some derangement of the participants breaks no enabled rule
Satisfiable ==
    \E f \in Perms(N) : ~HasViolation([i \in 1..N |-> participants[f[i]]])

ReceiversOf(as) == [i \in 1..Len(as) |-> as[i].receiver]

NothingNotified ==
    dryRunLog = <<>> /\ sendMailCalls = <<>> /\ inflight = 0 /\ sent = 0 /\ errors = 0

NoMatchingDone == attempts = 0 /\ rnd = <<>> /\ assignments = <<>>

\* C1: for N >= 2 participants with distinct ids, whenever createAssignments
\* has returned there are exactly N assignments, assignment i has giver
\* participants[i], the receivers are a permutation of the participants and
\* no giver is its own receiver.
C1_AssignmentsAreDerangement ==
    (Returned /\ N >= 2 /\ DistinctIds) =>
        /\ Len(assignments) = N
        /\ \A i \in 1..N : assignments[i].giver = participants[i]
        /\ \E f \in Perms(N) :
               \A i \in 1..N : assignments[i].receiver = participants[f[i]]
        /\ \A i \in 1..N : assignments[i].giver.uid # assignments[i].receiver.uid

C1_Witness == pc = "sending" /\ k = 1 /\ N >= 3 /\ DistinctIds /\ Len(assignments) = N

C3_DryRunSendsNothing ==
    DryRunMode => (sendMailCalls = <<>> /\ inflight = 0 /\ sent = 0 /\ errors = 0)

C3_Witness == DryRunMode /\ pc = "done" /\ N >= 2 /\ Len(dryRunLog) = N

\* C4: in a live run every assignment gets exactly one sendMail call, whatever
\* sends fail: calls are made in giver order, none twice, and when the
\* run is done all N were attempted and each has settled as sent or error.
C4_OneAttemptEach ==
    ~DryRunMode =>
        /\ Len(sendMailCalls) <= Len(assignments)
        /\ \A i \in 1..Len(sendMailCalls) : sendMailCalls[i] = assignments[i].giver.uid
        /\ sent + errors + inflight = Len(sendMailCalls)
        /\ (pc = "done" => (Len(sendMailCalls) = N /\ sent + errors = N))

C4_Witness == ~DryRunMode /\ pc = "done" /\ errors >= 1 /\ sent >= 1 /\ N >= 3

\* C5: with fewer than 2 participants createAssignments is never entered and
\* nothing is sent or printed as a notification; once main has run it has
\* logged the error and halted.
C5_TooFewHalts ==
    N < 2 =>
        /\ pc \in {"start", "halted", "exited"}
        /\ NoMatchingDone /\ receivers = <<>> /\ NothingNotified
        /\ ((~HelpAsked /\ pc # "start") => (pc = "halted" /\ errorLogged))

C5_Witness == N < 2 /\ pc = "halted" /\ errorLogged

\* C6: a notification is only issued once the assignment set is final, sends
\* are issued in giver order, and a send is started only when every earlier
\* send has settled, so that at most one is in flight.
C6_SequentialSends ==
    [][ /\ inflight' \in {0, 1}
        /\ (dryRunLog' # <<>> \/ sendMailCalls' # <<>>) =>
               (Returned' /\ ~hasInvalidAssignment' /\ Len(assignments') = N)
        /\ Len(sendMailCalls') > Len(sendMailCalls) =>
               /\ inflight = 0
               /\ sent + errors = Len(sendMailCalls)
               /\ sendMailCalls' = Append(sendMailCalls,
                                          participants[Len(sendMailCalls) + 1].uid)
        /\ Len(dryRunLog') > Len(dryRunLog) =>
               dryRunLog' = Append(dryRunLog, participants[Len(dryRunLog) + 1].uid)
      ]_vars

C6_Witness == pc = "awaiting" /\ inflight = 1 /\ Len(sendMailCalls) >= 2 /\ errors >= 1

\* C7: with --help or -h among the arguments the run only prints the usage
\* and exits with status 0: no participant validation, no matching attempt
\* and no notification.
C7_HelpDoesNoWork ==
    HelpAsked =>
        /\ pc \in {"start", "exited"}
        /\ ~errorLogged
        /\ NoMatchingDone /\ receivers = <<>> /\ NothingNotified
        /\ (pc = "exited" => (usagePrinted /\ exitCode = 0))

C7_Witness == pc = "exited" /\ "-h" \in args /\ Cardinality(args) >= 2 /\ N >= 2

\* C8: with group exclusion disabled and N >= 2 participants with distinct
\* ids the matching loop is eventually left (under fair random draws), and
\* the candidate it accepts contains no self-assignment.
C8_TerminatesWithDerangement ==
    /\ [][(pc = "matching" /\ pc' # "matching" /\ ~GroupExclusionEnabled /\ DistinctIds) =>
             /\ Returned'
             /\ \A i \in 1..N : ReceiversOf(assignments')[i] # participants[i]]_vars
    /\ ((pc = "matching" /\ ~GroupExclusionEnabled /\ DistinctIds) ~> Returned)

C8_Witness ==
    Returned /\ ~GroupExclusionEnabled /\ N >= 3 /\ DistinctIds /\ Len(assignments) = N

\* C9: every attempt checks a fresh shuffle of the whole participant list; a
\* candidate with a violation is discarded whole and the loop goes on, a
\* candidate with none is accepted at once and its receivers are returned
\* unchanged.
C9_WholeCandidateRejection ==
    [][pc = "matching" =>
          LET cand == shuffle(participants, rnd')
          IN  IF HasViolation(cand)
              THEN /\ pc' = "matching"
                   /\ receivers' = cand
                   /\ assignments' = <<>>
              ELSE /\ pc' = "sending"
                   /\ ReceiversOf(assignments') = cand
      ]_vars

C9_Witness ==
    pc = "matching" /\ attempts = MaxAttempts /\ receivers # participants /\ N >= 3

\* C10: with group exclusion enabled and no derangement free of same-group
\* pairs, createAssignments never returns: the loop can always run once
\* more, however many attempts were made, and nothing is ever notified.
C10_UnsatisfiableNeverReturns ==
    (GroupExclusionEnabled /\ N >= 2 /\ ~Satisfiable) =>
        /\ ~Returned
        /\ assignments = <<>>
        /\ NothingNotified
        /\ (pc = "matching" => (hasInvalidAssignment /\ ENABLED CreateAssignmentsLoop))

C10_Witness ==
    /\ GroupExclusionEnabled /\ N >= 3 /\ ~Satisfiable
    /\ pc = "matching" /\ attempts = MaxAttempts

====
